---- MODULE Spec2Model ----
(***************************************************************************)
(* Origin-response fallback handlers of cdk-nuxt.                          *)
(*                                                                         *)
(*   inline variant : src/lib/client.ts, createEdgeLambda, the handler     *)
(*                    given to Code.fromInline (lines 165-203)             *)
(*   probe variant  : src/unnamed/part_002, exports.handler (lines 4-49)   *)
(*                                                                         *)
(* The stack that deploys them (src/unnamed/part_000, src/lib/server.ts,   *)
(* src/lib/client.ts) is modelled by the resources its constructs create,  *)
(* and the deployed distribution by a viewer's request passing through its *)
(* cache behaviours.                                                       *)
(*                                                                         *)
(* Text that the handlers build (URIs, hosts, S3 keys, URLs) is a sequence *)
(* of one-character strings, so that + is \o and endsWith / includes are   *)
(* computed on the characters.  The JavaScript value undefined is the      *)
(* one-element sequence <<"undefined">>, which is no text.                 *)
(***************************************************************************)
EXTENDS Integers, Sequences, FiniteSets, TLC

\* ---------------------------------------------------------------- bounds
MaxUriLen == 3

\* ------------------------------------------------------ JavaScript values
undefined == <<"undefined">>

UriChars == {"/", ".", "a"}

\* 'index.html' and '/index.html' and 'https://' as written in the handlers
IndexHtml == <<"i", "n", "d", "e", "x", ".", "h", "t", "m", "l">>
SlashIndexHtml == <<"/">> \o IndexHtml
Https == <<"h", "t", "t", "p", "s", ":", "/", "/">>

\* String.prototype.endsWith
endsWith(s, suffix) ==
  /\ Len(s) >= Len(suffix)
  /\ SubSeq(s, Len(s) - Len(suffix) + 1, Len(s)) = suffix

\* String.prototype.includes, for a one-character search string
includes(s, c) == \E i \in 1..Len(s) : s[i] = c

\* String.prototype.startsWith
startsWith(s, prefix) ==
  /\ Len(s) >= Len(prefix)
  /\ SubSeq(s, 1, Len(prefix)) = prefix

\* ------------------------------------------------------------ the inputs
\* request.uri as CloudFront supplies it: a path that starts with "/"
Uris == UNION {{<<"/">> \o t : t \in [1..n -> UriChars]} : n \in 0..(MaxUriLen - 1)}

Hosts == {<<"d", ".", "n">>, <<"e">>}

Statuses == {"200", "302", "403", "404", "500"}

StatusDescriptions == {"OK", "Not Found"}

\* response.headers: header name -> list of {key, value}
NoHeaders == [n \in {} |-> <<>>]
OriginHeaders == "content-type" :> <<[key |-> "Content-Type", value |-> "text/html"]>>
HeaderMaps == {NoHeaders, OriginHeaders}

\* a field the object does not have
absent == "(absent)"
Bodies == {absent, "origin body"}

Methods == {"GET", "HEAD"}

RequestHeaderMaps == {NoHeaders, "accept" :> <<[key |-> "Accept", value |-> "*/*"]>>}

Responses ==
  [status : Statuses, statusDescription : StatusDescriptions,
   headers : HeaderMaps, body : Bodies]

\* request.uri is undefined when the request record carries no uri
Requests ==
  [uri : Uris \cup {undefined}, method : Methods, headers : RequestHeaderMaps]

CfRecords ==
  [cf : [response : Responses, request : Requests,
         config : [distributionDomainName : Hosts]]]

\* event.Records holds one record; an event with no record is malformed
Events == [Records : {<<>>} \cup {<<r>> : r \in CfRecords}]

\* ------------------------------------------------- the storage collaborator
\* keys the bucket may hold, written as the probe handler asks for them
StorableKeys == {SlashIndexHtml, <<"/", "a">> \o SlashIndexHtml}

\* error names S3 answers GetObject with
NoSuchKey == "NoSuchKey"
StorageAccessErrors == {"AccessDenied", "SlowDown", "NetworkingError"}

\* GetObject as the bucket answers it: a storage failure f if one strikes,
\* else the object when the key is stored, else the NoSuchKey error
GetObject(stored, key, f) ==
  IF f # "none" THEN f
  ELSE IF key \in stored THEN "ok"
  ELSE NoSuchKey

\* --------------------------------------------------- how a handler run ends
\* callback(null, r) of the inline handler, return r of the probe handler
Delivers(r) == [delivered |-> <<r>>, error |-> "none"]

\* an exception leaves the handler: nothing is delivered
Throws(e) == [delivered |-> <<>>, error |-> e]

\* InlineRedirectUrl with the two tests in the other order
InlineRedirectUrlDotFirst(host, uri) ==
  IF ~includes(uri, ".") THEN Https \o host \o uri \o SlashIndexHtml
  ELSE IF endsWith(uri, <<"/">>) THEN Https \o host \o uri \o IndexHtml
  ELSE undefined

\* -------------------------------------------------------- inline variant
\* client.ts 172-178: let redirectUrl; if (endsWith('/')) .. else if (!includes('.')) ..
InlineRedirectUrl(host, uri) ==
  IF endsWith(uri, <<"/">>) THEN Https \o host \o uri \o IndexHtml
  ELSE IF ~includes(uri, ".") THEN Https \o host \o uri \o SlashIndexHtml
  ELSE undefined

\* client.ts 181-187
InlineRedirectResponse(redirectUrl) ==
  [status |-> "302", statusDescription |-> "Found",
   headers |-> "Location" :> <<[key |-> "Location", value |-> redirectUrl]>>,
   body |-> absent]

\* InlineNotFoundResponse that drops the origin's headers
InlineNotFoundResponseNoHeaders(response) ==
  [status |-> "404", statusDescription |-> "Not Found",
   headers |-> NoHeaders, body |-> "<h1>404 Not Found</h1>"]

\* client.ts 192-197
InlineNotFoundResponse(response) ==
  [status |-> "404", statusDescription |-> "Not Found",
   headers |-> response.headers, body |-> "<h1>404 Not Found</h1>"]

\* InlineDecide that redirects GET requests only
InlineDecideGetOnly(response, request, host) ==
  IF response.status = "404" /\ request.method = "GET" THEN
    IF request.uri = undefined THEN Throws("TypeError")
    ELSE Delivers(InlineRedirectResponse(InlineRedirectUrl(host, request.uri)))
  ELSE IF response.status = "403" THEN Delivers(InlineNotFoundResponse(response))
  ELSE Delivers(response)

\* client.ts 171-202, once response, request and host are read
InlineDecide(response, request, host) ==
  IF response.status = "404" THEN
    IF request.uri = undefined THEN Throws("TypeError")
    ELSE Delivers(InlineRedirectResponse(InlineRedirectUrl(host, request.uri)))
  ELSE IF response.status = "403" THEN Delivers(InlineNotFoundResponse(response))
  ELSE Delivers(response)

\* client.ts 165-203: the whole inline handler
InlineHandler(ev) ==
  IF Len(ev.Records) = 0 THEN Throws("TypeError")
  ELSE InlineDecide(ev.Records[1].cf.response, ev.Records[1].cf.request,
                    ev.Records[1].cf.config.distributionDomainName)

\* BucketKey that appends '/index.html' whatever the URI ends with
BucketKeyAlwaysSlash(uri) == uri \o SlashIndexHtml

\* --------------------------------------------------------- probe variant
\* part_002 14-16: bucketParams.Key
BucketKey(uri) ==
  IF endsWith(uri, <<"/">>) THEN uri \o IndexHtml ELSE uri \o SlashIndexHtml

\* part_002 24-30
ProbeRedirectResponse(host, key) ==
  [status |-> "302", statusDescription |-> "Found",
   headers |-> "location" :> <<[key |-> "Location", value |-> Https \o host \o key]>>,
   body |-> absent]

\* part_002 38-43
ProbeNotFoundResponse(response) ==
  [status |-> "404", statusDescription |-> "Not Found",
   headers |-> response.headers, body |-> "<h1>404 Not Found</h1>"]

\* ProbeAfterSend whose catch answers with the 404 page instead of the original
ProbeAfterSendCatchNotFound(reply, response, host, key) ==
  IF reply = "ok" THEN Delivers(ProbeRedirectResponse(host, key))
  ELSE Delivers(ProbeNotFoundResponse(response))

\* part_002 19-34: what follows the await, given how send() settled
ProbeAfterSend(reply, response, host, key) ==
  IF reply = "ok" THEN Delivers(ProbeRedirectResponse(host, key))
  ELSE Delivers(response)

\* ProbeDecideNoProbe that rewrites every error status, not only 403
ProbeDecideNoProbeAllErrors(response) ==
  IF response.status \in {"403", "500"} THEN Delivers(ProbeNotFoundResponse(response))
  ELSE Delivers(response)

\* part_002 37-48: the branches that need no probe
ProbeDecideNoProbe(response) ==
  IF response.status = "403" THEN Delivers(ProbeNotFoundResponse(response))
  ELSE Delivers(response)

\* ------------------------------------------------------- the stack's props
\* longest array given for an array-valued prop
MaxListLen == 2

\* an optional prop is <<>> when it is not given and <<v>> when it is v
NotGiven == <<>>

\* truthiness of an optional string, number, boolean: what if (x), x || d and
\* x ? a : b test
TruthyString(o) == Len(o) = 1 /\ o[1] # ""
\* a number that counts whenever it is given, 0 included (x ?? d)
TruthyNumberNullish(o) == Len(o) = 1

TruthyNumber(o) == Len(o) = 1 /\ o[1] # 0
TruthyBoolean(o) == Len(o) = 1 /\ o[1]

\* x || d
OrElse(truthy, o, d) == IF truthy THEN o[1] ELSE d

\* x?.length of an optional array
HasElements(o) == Len(o) = 1 /\ Len(o[1]) > 0

\* the arrays of at most MaxListLen elements of S
ListsOf(S) == UNION {[1..n -> S] : n \in 0..MaxListLen}

\* the optional values over S
Optional(S) == {NotGiven} \cup {<<v>> : v \in S}

\* props that give the mandatory fields and nothing else
DefaultProps ==
  [env |-> <<[account |-> "123456789012", region |-> "us-east-1"]>>,
   application |-> <<"app">>, service |-> <<"web">>, environment |-> <<"dev">>,
   headers |-> NotGiven, responseHeadersPolicy |-> NotGiven,
   errorPagePath |-> NotGiven,
   domain |-> NotGiven, globalCertificateArn |-> NotGiven,
   regionalCertificateArn |-> NotGiven, hostedZoneId |-> NotGiven,
   allowQueryParams |-> NotGiven, denyQueryParams |-> NotGiven,
   serverProps |->
     [runtime |-> NotGiven, architecture |-> NotGiven, paths |-> NotGiven,
      exclude |-> NotGiven, memorySize |-> NotGiven, timeout |-> NotGiven,
      tracing |-> NotGiven, provisionedConcurrency |-> NotGiven,
      variables |-> NotGiven, secrets |-> NotGiven, dockerFile |-> NotGiven,
      keepWarm |-> NotGiven]]

\* props.headers: header name and value pairs
HeaderProps == Optional({{}, {<<"X-App-Version", "1.0.0">>}})

\* props.responseHeadersPolicy: a ResponseHeadersPolicyProps of the caller
PolicyProps ==
  Optional({[customHeaders |-> {}],
            [customHeaders |-> {[header |-> "X-Own", value |-> "1", override |-> TRUE]}]})

QueryParamProps == Optional(ListsOf({"lang", "utm_source"}))

ErrorPagePathProps == Optional({"/404.html"})

\* props that vary what the client construct reads
ClientVariations ==
  {[DefaultProps EXCEPT !.headers = h, !.responseHeadersPolicy = r,
                        !.allowQueryParams = a, !.denyQueryParams = dq,
                        !.errorPagePath = e] :
     h \in HeaderProps, r \in PolicyProps, a \in QueryParamProps,
     dq \in QueryParamProps, e \in ErrorPagePathProps}

DockerFileProps == Optional({"", "Dockerfile"})

RuntimeProps == Optional({"nodejs20.x", "nodejs22.x"})

\* serverProps.variables: an array of objects, each a list of [key, value] entries
VariableObjects ==
  {<< <<"A", "1">> >>, << <<"A", "2">> >>, << <<"S", "1">>, <<"B", "1">> >>}

VariablesProps == Optional(ListsOf(VariableObjects))

\* serverProps.secrets: an array of {key, resource}
SecretEntries == [key : {"S", "T"}, resource : {"arn:secret:1", "arn:secret:2"}]

SecretsProps == Optional(ListsOf(SecretEntries))

\* props that vary how the server function is built and what it is given
ServerVariations ==
  {[DefaultProps EXCEPT !.serverProps.dockerFile = df, !.serverProps.runtime = rt,
                        !.serverProps.variables = vs, !.serverProps.secrets = ss] :
     df \in DockerFileProps, rt \in RuntimeProps, vs \in VariablesProps,
     ss \in SecretsProps}

\* props that vary the mandatory fields
MandatoryVariations ==
  {[DefaultProps EXCEPT !.env = en, !.application = ap, !.service = sv,
                        !.environment = ev] :
     en \in {NotGiven, DefaultProps.env}, ap \in Optional({"", "app"}),
     sv \in Optional({"", "web"}), ev \in Optional({"", "dev"})}

\* props that vary how the server function is configured
ConfigurationVariations ==
  {[DefaultProps EXCEPT !.serverProps.runtime = rt, !.serverProps.architecture = ar,
                        !.serverProps.memorySize = ms, !.serverProps.timeout = tm,
                        !.serverProps.tracing = tr, !.serverProps.exclude = ex,
                        !.serverProps.dockerFile = df] :
     rt \in RuntimeProps, ar \in Optional({"arm64", "x86_64"}),
     ms \in Optional({0, 512}), tm \in Optional({0, 15}),
     tr \in Optional(BOOLEAN), ex \in Optional({<<>>, <<"README.md">>}),
     df \in Optional({"Dockerfile"})}

\* props that vary keepWarm and provisionedConcurrency
LifecycleVariations ==
  {[DefaultProps EXCEPT !.serverProps.keepWarm = kw,
                        !.serverProps.provisionedConcurrency = pv,
                        !.serverProps.dockerFile = df] :
     kw \in Optional(BOOLEAN), pv \in Optional({0, 2}), df \in DockerFileProps}

\* props that vary the custom domain
DomainVariations ==
  {[DefaultProps EXCEPT !.domain = dm, !.globalCertificateArn = gc,
                        !.regionalCertificateArn = rc, !.hostedZoneId = hz] :
     dm \in Optional({"", "example.com"}), gc \in Optional({"", "arn:acm:global"}),
     rc \in Optional({"", "arn:acm:regional"}), hz \in Optional({"", "Z1"})}

\* serverProps.paths: path patterns of CloudFront behaviours
PathPatterns == {"/api/*", "/a/*", "*.*"}

\* props that vary the server paths
PathVariations ==
  {[DefaultProps EXCEPT !.serverProps.paths = ps] :
     ps \in Optional(ListsOf(PathPatterns))}

StackProps ==
  ClientVariations \cup ServerVariations \cup MandatoryVariations \cup
  ConfigurationVariations \cup LifecycleVariations \cup DomainVariations \cup
  PathVariations

\* ------------------------------------------------------ ServerConstruct
\* server.ts 158, 124: memorySize || 1792
DefaultMemorySize == 1792

\* server.ts 155-157, 121-123: Duration.seconds(10)
DefaultTimeout == 10

\* server.ts 289: Schedule.rate(Duration.minutes(5))
PingRateMinutes == 5

\* server.ts 164-167, 130-133: environment of the function as created
BaseEnvironment ==
  {[key |-> "NODE_OPTIONS", value |-> "--enable-source-maps", secret |-> FALSE],
   [key |-> "NITRO_PRESET", value |-> "aws-lambda", secret |-> FALSE]}

\* server.ts 145-172: the zip function
createLambdaFunction(p) ==
  [id |-> "Function", kind |-> "zip",
   runtime |-> OrElse(TruthyString(p.serverProps.runtime), p.serverProps.runtime,
                      "nodejs20.x"),
   architecture |-> OrElse(TruthyString(p.serverProps.architecture),
                           p.serverProps.architecture, "arm64"),
   exclude |-> OrElse(Len(p.serverProps.exclude) = 1, p.serverProps.exclude, <<>>),
   timeout |-> OrElse(TruthyNumber(p.serverProps.timeout), p.serverProps.timeout,
                      DefaultTimeout),
   memorySize |-> OrElse(TruthyNumber(p.serverProps.memorySize),
                         p.serverProps.memorySize, DefaultMemorySize),
   tracing |-> IF TruthyBoolean(p.serverProps.tracing) THEN "Active" ELSE "Disabled",
   file |-> NotGiven,
   environment |-> BaseEnvironment]

\* server.ts 100-138: the container-image function; it takes no runtime
createContainerLambdaFunction(p) ==
  [id |-> "ContainerFunction", kind |-> "image",
   runtime |-> "FROM_IMAGE",
   architecture |-> OrElse(TruthyString(p.serverProps.architecture),
                           p.serverProps.architecture, "arm64"),
   exclude |-> OrElse(Len(p.serverProps.exclude) = 1, p.serverProps.exclude, <<>>),
   timeout |-> OrElse(TruthyNumber(p.serverProps.timeout), p.serverProps.timeout,
                      DefaultTimeout),
   memorySize |-> OrElse(TruthyNumber(p.serverProps.memorySize),
                         p.serverProps.memorySize, DefaultMemorySize),
   tracing |-> IF TruthyBoolean(p.serverProps.tracing) THEN "Active" ELSE "Disabled",
   file |-> p.serverProps.dockerFile,
   environment |-> BaseEnvironment]

\* server.ts 42-44: the function the construct keeps as this.lambdaFunction
selectLambdaFunction(p) ==
  IF TruthyString(p.serverProps.dockerFile) THEN createContainerLambdaFunction(p)
  ELSE createLambdaFunction(p)

\* addEnvironment that keeps the value a key already has
addEnvironmentKeepFirst(env, k, v, sec) ==
  IF \E e \in env : e.key = k THEN env
  ELSE env \cup {[key |-> k, value |-> v, secret |-> sec]}

\* Function.addEnvironment: environment[key] = value, a later value replaces
\* an earlier one; secret marks a value that is the unwrapped value of the
\* secret whose ARN is given
addEnvironment(env, k, v, sec) ==
  {e \in env : e.key # k} \cup {[key |-> k, value |-> v, secret |-> sec]}

\* server.ts 182-184: Object.entries(envVar).forEach
RECURSIVE addEntries(_, _)
addEntries(entries, env) ==
  IF entries = <<>> THEN env
  ELSE addEntries(Tail(entries),
                  addEnvironment(env, Head(entries)[1], Head(entries)[2], FALSE))

\* server.ts 180-186
RECURSIVE addEnvironmentVariables(_, _)
addEnvironmentVariables(envVars, env) ==
  IF envVars = <<>> THEN env
  ELSE addEnvironmentVariables(Tail(envVars), addEntries(Head(envVars), env))

\* server.ts 194-208: st is the function's environment, the read grants made,
\* the keys whose secret is imported and the error thrown; importing a second
\* construct named Secret-<key> into the same scope throws
RECURSIVE addSecrets(_, _)
addSecrets(secrets, st) ==
  IF secrets = <<>> THEN st
  ELSE IF Head(secrets).key \in st.imported THEN
    [st EXCEPT !.error = "There is already a Construct with that name"]
  ELSE addSecrets(Tail(secrets),
         [environment |-> addEnvironment(st.environment, Head(secrets).key,
                                         Head(secrets).resource, TRUE),
          grants |-> st.grants \cup {Head(secrets).resource},
          imported |-> st.imported \cup {Head(secrets).key},
          error |-> st.error])

\* server.ts 57-63: the function's environment and grants after the variables
\* and the secrets are added
configureEnvironment(p, env) ==
  LET withVariables ==
        IF HasElements(p.serverProps.variables)
        THEN addEnvironmentVariables(p.serverProps.variables[1], env)
        ELSE env
      start == [environment |-> withVariables, grants |-> {}, imported |-> {},
                error |-> "none"]
  IN IF HasElements(p.serverProps.secrets)
     THEN addSecrets(p.serverProps.secrets[1], start)
     ELSE start

\* createAlias that tests provisionedConcurrency for truthiness
createAliasIfTruthy(p, fn) ==
  IF TruthyNumber(p.serverProps.provisionedConcurrency)
  THEN {[aliasName |-> "live", version |-> fn.id,
         provisionedConcurrentExecutions |-> p.serverProps.provisionedConcurrency[1]]}
  ELSE {}

\* server.ts 47-55: the alias that carries the provisioned concurrency
createAlias(p, fn) ==
  IF p.serverProps.provisionedConcurrency # NotGiven
  THEN {[aliasName |-> "live", version |-> fn.id,
         provisionedConcurrentExecutions |-> p.serverProps.provisionedConcurrency[1]]}
  ELSE {}

\* server.ts 221-230: the custom domain of the API
createApiDomainName(p) ==
  IF TruthyString(p.domain) /\ TruthyString(p.regionalCertificateArn)
  THEN {[domainName |-> p.domain[1], certificate |-> p.regionalCertificateArn[1]]}
  ELSE {}

\* server.ts 215-248
createApiGateway(p, fn) ==
  [defaultIntegration |-> fn.id,
   defaultDomainMapping |-> createApiDomainName(p),
   routes |-> {[path |-> "/{proxy+}", methods |-> {"GET", "HEAD"},
                integration |-> fn.id]}]

\* server.ts 253-261
createHttpOrigin(p) ==
  [kind |-> "http", region |-> p.env[1].region, protocolPolicy |-> "https-only"]

\* createPingRule that does not look at keepWarm
createPingRuleAlways(p, fn) ==
  {[ruleName |-> "pinger", rateMinutes |-> PingRateMinutes, target |-> fn.id,
    event |-> [routeKey |-> "GET /{proxy+}", rawPath |-> "/", method |-> "GET"]]}

\* server.ts 71-74, 269-294
createPingRule(p, fn) ==
  IF TruthyBoolean(p.serverProps.keepWarm)
  THEN {[ruleName |-> "pinger", rateMinutes |-> PingRateMinutes, target |-> fn.id,
         event |-> [routeKey |-> "GET /{proxy+}", rawPath |-> "/", method |-> "GET"]]}
  ELSE {}

\* what a stack holds before its constructs are created
NoServer ==
  [functions |-> {}, aliases |-> {}, grants |-> {}, apis |-> {}, origins |-> {},
   rules |-> {}]

\* server.ts 27-75: the resources the constructor creates, and the error it
\* throws if it does
ServerConstruct(p) ==
  LET fn == selectLambdaFunction(p)
      configured == configureEnvironment(p, fn.environment)
  IN [error |-> configured.error,
      server |->
        [functions |-> {[fn EXCEPT !.environment = configured.environment]},
         aliases |-> createAlias(p, fn),
         grants |-> {[secret |-> a, grantee |-> fn.id] : a \in configured.grants},
         apis |-> {createApiGateway(p, fn)},
         origins |-> {createHttpOrigin(p)},
         rules |-> createPingRule(p, fn)]]

\* ------------------------------------------------------ ClientConstruct
\* client.ts 161: memorySize of the edge function
EdgeMemorySize == 128

\* createStaticAssetsBucket whose policy also lets CloudFront list the bucket
createStaticAssetsBucketListable(p) ==
  [bucket |-> [id |-> "AssetsBucket", versioned |-> TRUE],
   s3Origin |-> [kind |-> "s3", originAccessLevels |-> {"READ"}],
   policyActions |-> {"s3:GetObject", "s3:ListBucket"}]

\* client.ts 86-146: the assets bucket, its origin and the actions its
\* resource policy allows CloudFront (131-144, and 52-63)
createStaticAssetsBucket(p) ==
  [bucket |-> [id |-> "AssetsBucket", versioned |-> TRUE],
   s3Origin |-> [kind |-> "s3", originAccessLevels |-> {"READ"}],
   policyActions |-> {"s3:GetObject"}]

\* client.ts 153-211: the fallback edge function; its code is the inline handler
createEdgeLambda(p) ==
  [id |-> "FallbackEdgeFunction",
   runtime |-> OrElse(TruthyString(p.serverProps.runtime), p.serverProps.runtime,
                      "nodejs20.x"),
   handler |-> "index.handler",
   memorySize |-> EdgeMemorySize,
   code |-> "inline",
   grantRead |-> {"AssetsBucket"}]

\* client.ts 281-289: customHeadersBehavior.customHeaders
customHeaders(p) ==
  IF p.headers # NotGiven
  THEN {[header |-> e[1], value |-> e[2], override |-> TRUE] : e \in p.headers[1]}
  ELSE {}

\* client.ts 241-291: props.responseHeadersPolicy || { ..., customHeadersBehavior }
createResponseHeadersPolicy(p) ==
  IF p.responseHeadersPolicy # NotGiven THEN p.responseHeadersPolicy[1]
  ELSE [customHeaders |-> customHeaders(p)]

\* queryStringBehavior with denyQueryParams tested before allowQueryParams
queryStringBehaviorDenyFirst(p) ==
  IF HasElements(p.denyQueryParams)
  THEN [behavior |-> "allExcept", queryStrings |-> p.denyQueryParams[1]]
  ELSE IF HasElements(p.allowQueryParams)
  THEN [behavior |-> "whitelist", queryStrings |-> p.allowQueryParams[1]]
  ELSE [behavior |-> "none", queryStrings |-> <<>>]

\* client.ts 309-313: queryStringBehavior of the server cache policy
queryStringBehavior(p) ==
  IF HasElements(p.allowQueryParams)
  THEN [behavior |-> "whitelist", queryStrings |-> p.allowQueryParams[1]]
  ELSE IF HasElements(p.denyQueryParams)
  THEN [behavior |-> "allExcept", queryStrings |-> p.denyQueryParams[1]]
  ELSE [behavior |-> "none", queryStrings |-> <<>>]

\* client.ts 297-316
createServerCachePolicy(p) ==
  [id |-> "ServerCachePolicy", defaultTtl |-> 0, minTtl |-> 0, maxTtl |-> 1,
   queryStringBehavior |-> queryStringBehavior(p)]

\* client.ts 336-350
defaultRouteBehavior(policy, cachePolicy) ==
  [origin |-> "http", allowedMethods |-> {"GET", "HEAD"},
   cachePolicy |-> cachePolicy.id,
   viewerProtocolPolicy |-> "redirect-to-https",
   responseHeadersPolicy |-> {policy},
   edgeLambdas |-> {[eventType |-> "origin-response",
                     function |-> "FallbackEdgeFunction"]}]

\* apiRouteBehavior with the edge function attached as on the other behaviours
apiRouteBehaviorWithResolver(policy, cachePolicy) ==
  [origin |-> "http",
   allowedMethods |-> {"GET", "HEAD", "OPTIONS", "PUT", "PATCH", "POST", "DELETE"},
   cachePolicy |-> cachePolicy.id,
   viewerProtocolPolicy |-> "https-only",
   responseHeadersPolicy |-> {},
   edgeLambdas |-> {[eventType |-> "origin-response",
                     function |-> "FallbackEdgeFunction"]}]

\* client.ts 354-361
apiRouteBehavior(policy, cachePolicy) ==
  [origin |-> "http",
   allowedMethods |-> {"GET", "HEAD", "OPTIONS", "PUT", "PATCH", "POST", "DELETE"},
   cachePolicy |-> cachePolicy.id,
   viewerProtocolPolicy |-> "https-only",
   responseHeadersPolicy |-> {},
   edgeLambdas |-> {}]

\* client.ts 363-376
staticAssetsBehavior(policy, cachePolicy) ==
  [origin |-> "s3", allowedMethods |-> {"GET", "HEAD", "OPTIONS"},
   cachePolicy |-> "CachingOptimized",
   viewerProtocolPolicy |-> "redirect-to-https",
   responseHeadersPolicy |-> {},
   edgeLambdas |-> {[eventType |-> "origin-response",
                     function |-> "FallbackEdgeFunction"]}]

\* client.ts 379: props.serverProps?.paths || ['/api/*']
serverPaths(p) ==
  IF p.serverProps.paths # NotGiven THEN p.serverProps.paths[1] ELSE <<"/api/*">>

\* additionalBehaviors[pattern] = behavior
assignBehavior(behaviors, pattern, behavior) ==
  [q \in DOMAIN behaviors \cup {pattern} |->
     IF q = pattern THEN behavior ELSE behaviors[q]]

\* client.ts 379-381: the loop over the server paths
RECURSIVE attachApiBehavior(_, _, _)
attachApiBehavior(paths, behaviors, behavior) ==
  IF paths = <<>> THEN behaviors
  ELSE attachApiBehavior(Tail(paths), assignBehavior(behaviors, Head(paths), behavior),
                         behavior)

\* additionalBehaviors with '*.*' assigned before the server paths
additionalBehaviorsStaticFirst(p, policy, cachePolicy) ==
  attachApiBehavior(serverPaths(p),
                    assignBehavior([q \in {} |-> {}], "*.*",
                                   staticAssetsBehavior(policy, cachePolicy)),
                    apiRouteBehavior(policy, cachePolicy))

\* client.ts 352-383
additionalBehaviors(p, policy, cachePolicy) ==
  assignBehavior(
    attachApiBehavior(serverPaths(p), [q \in {} |-> {}],
                      apiRouteBehavior(policy, cachePolicy)),
    "*.*", staticAssetsBehavior(policy, cachePolicy))

\* the keys of an object in insertion order: a key assigned again keeps its place
RECURSIVE insertionOrder(_, _)
insertionOrder(keys, order) ==
  IF keys = <<>> THEN order
  ELSE insertionOrder(Tail(keys),
         IF \E i \in 1..Len(order) : order[i] = Head(keys) THEN order
         ELSE Append(order, Head(keys)))

\* client.ts 379-383: the order in which additionalBehaviors lists its patterns,
\* which is the order of precedence of the cache behaviours
behaviorOrder(p) == insertionOrder(serverPaths(p) \o <<"*.*">>, <<>>)

\* client.ts 222-406: no errorResponses and no defaultRootObject are given
createCloudFrontDistribution(p) ==
  LET policy == createResponseHeadersPolicy(p)
      cachePolicy == createServerCachePolicy(p)
      aliased == TruthyString(p.domain) /\ TruthyString(p.globalCertificateArn)
  IN [responseHeadersPolicy |-> policy,
      serverCachePolicy |-> cachePolicy,
      defaultBehavior |-> defaultRouteBehavior(policy, cachePolicy),
      additionalBehaviors |-> additionalBehaviors(p, policy, cachePolicy),
      behaviorOrder |-> behaviorOrder(p),
      domainNames |-> IF aliased THEN {p.domain[1]} ELSE {},
      certificate |-> IF aliased THEN {p.globalCertificateArn[1]} ELSE {},
      errorResponses |-> {}]

\* client.ts 464-481
createDnsRecords(p) ==
  {[type |-> t, recordName |-> p.domain[1], zone |-> p.hostedZoneId[1],
    target |-> "CDN"] : t \in {"A", "AAAA"}}

NoClient ==
  [buckets |-> {}, edgeFunctions |-> {}, distributions |-> {}, dnsRecords |-> {}]

\* ClientConstruct that creates the DNS records without asking for the
\* global certificate
ClientConstructDnsWithoutCertificate(p) ==
  [buckets |-> {createStaticAssetsBucket(p)},
   edgeFunctions |-> {createEdgeLambda(p)},
   distributions |-> {createCloudFrontDistribution(p)},
   dnsRecords |->
     IF TruthyString(p.domain) /\ TruthyString(p.hostedZoneId)
     THEN createDnsRecords(p)
     ELSE {}]

\* client.ts 32-79
ClientConstruct(p) ==
  [buckets |-> {createStaticAssetsBucket(p)},
   edgeFunctions |-> {createEdgeLambda(p)},
   distributions |-> {createCloudFrontDistribution(p)},
   dnsRecords |->
     IF /\ TruthyString(p.domain)
        /\ TruthyString(p.globalCertificateArn)
        /\ TruthyString(p.hostedZoneId)
     THEN createDnsRecords(p)
     ELSE {}]

\* ----------------------------------------------------------- NuxtStack
\* checkMandatory with the two checks in the other order
checkMandatoryFieldsFirst(p) ==
  IF \/ ~TruthyString(p.application)
     \/ ~TruthyString(p.environment)
     \/ ~TruthyString(p.service)
  THEN "Mandatory stack properties missing."
  ELSE IF p.env = NotGiven THEN "Must provide AWS account and region."
  ELSE "none"

\* part_000 13-18: the error the constructor throws on its props, or "none"
checkMandatory(p) ==
  IF p.env = NotGiven THEN "Must provide AWS account and region."
  ELSE IF \/ ~TruthyString(p.application)
          \/ ~TruthyString(p.environment)
          \/ ~TruthyString(p.service)
  THEN "Mandatory stack properties missing."
  ELSE "none"

\* a stack with no construct in it
EmptyStack == [server |-> NoServer, client |-> NoClient, oacPatched |-> FALSE]

\* ------------------------------------------------------------- the state
VARIABLES
  variant,      \* which handler the distribution was deployed with
  bucket,       \* keys stored in the static-assets bucket
  event,        \* the origin-response event of the current invocation
  pc,           \* "idle", "awaiting" (at the await of part_002 21), "done"
  probeKey,     \* bucketParams.Key of the current invocation
  s3Requests,   \* GetObject commands sent and not yet answered
  s3Reply,      \* the answer to the probe, once storage has given it
  sendCalls,    \* s3Client.send calls made by the current invocation
  probeResult,  \* how the awaited send() settled
  delivered,    \* responses handed back to CloudFront by the invocation
  error,        \* the exception that left the handler, or "none"
  replayOf      \* the output the current invocation was fed as its origin
                \* response, when CloudFront runs the handler on its own output
VARIABLES
  runs,         \* per concurrent invocation: pc, event, probeKey, probeResult,
                \* delivered, error
  s3Wire        \* GetObject commands of concurrent invocations and their answers
VARIABLES
  props,        \* the NuxtProps given to new NuxtStack
  stack,        \* the resources the constructs have created
  spc,          \* how far the NuxtStack constructor has come
  thrown        \* the error the constructor has thrown, or "none"
VARIABLES
  viewer        \* a viewer's request on its way through the distribution

vars == <<variant, bucket, event, pc, probeKey, s3Requests, s3Reply,
          sendCalls, probeResult, delivered, error, replayOf, runs, s3Wire,
          props, stack, spc, thrown, viewer>>

\* the state of the stack under construction
stackVars == <<props, stack, spc, thrown>>

\* the state of invocations that run side by side
concVars == <<runs, s3Wire>>

\* the state of a viewer's request
viewerVars == <<viewer>>

\* no viewer has sent a request
NoViewer ==
  [phase |-> "idle", host |-> <<>>, uri |-> <<>>, pattern |-> "(none)",
   originResponse |-> <<>>, ran |-> FALSE, answer |-> <<>>, hops |-> 0]

\* ------------------------------------------------ concurrent invocations
NumInvocations == 2

Ids == 1..NumInvocations

\* an execution environment with no invocation in it
IdleRun ==
  [pc |-> "idle", event |-> [Records |-> <<>>], probeKey |-> undefined,
   probeResult |-> "none", delivered |-> <<>>, error |-> "none"]

Variants == {"inline", "probe"}

NoEvent == [Records |-> <<>>]

\* no stack is being constructed
Unbuilt ==
  /\ stack = EmptyStack
  /\ spc = "new"
  /\ thrown = "none"

Init ==
  /\ variant \in Variants
  /\ bucket \in SUBSET StorableKeys
  /\ props = DefaultProps
  /\ Unbuilt
  /\ viewer = NoViewer
  /\ event = NoEvent
  /\ pc = "idle"
  /\ probeKey = undefined
  /\ s3Requests = <<>>
  /\ s3Reply = <<>>
  /\ sendCalls = 0
  /\ probeResult = "none"
  /\ delivered = <<>>
  /\ error = "none"
  /\ replayOf = <<>>
  /\ runs = [i \in Ids |-> IdleRun]
  /\ s3Wire = {}

\* CloudFront invokes the inline handler on an origin response
InlineInvoke ==
  /\ variant = "inline"
  /\ pc = "idle"
  /\ \E ev \in Events :
       /\ event' = ev
       /\ delivered' = InlineHandler(ev).delivered
       /\ error' = InlineHandler(ev).error
  /\ pc' = "done"
  /\ UNCHANGED <<variant, bucket, probeKey, s3Requests, s3Reply, sendCalls, probeResult,
                 replayOf>>
  /\ UNCHANGED <<concVars, stackVars, viewerVars>>

\* ProbeStart that also probes on a 403
ProbeStartProbesForbidden(ev) ==
  IF Len(ev.Records) = 0 THEN
    [pc |-> "done", key |-> undefined, send |-> <<>>, end |-> Throws("TypeError")]
  ELSE IF ev.Records[1].cf.response.status \in {"404", "403"} THEN
    IF ev.Records[1].cf.request.uri = undefined THEN
      [pc |-> "done", key |-> undefined, send |-> <<>>, end |-> Throws("TypeError")]
    ELSE
      [pc |-> "awaiting", key |-> BucketKey(ev.Records[1].cf.request.uri),
       send |-> <<BucketKey(ev.Records[1].cf.request.uri)>>,
       end |-> [delivered |-> <<>>, error |-> "none"]]
  ELSE
    [pc |-> "done", key |-> undefined, send |-> <<>>,
     end |-> ProbeDecideNoProbe(ev.Records[1].cf.response)]

\* part_002 5-21 and 37-48: the probe handler up to its await, or to its end
\* when it needs no probe; send is the GetObject command it issues, if any
ProbeStart(ev) ==
  IF Len(ev.Records) = 0 THEN
    [pc |-> "done", key |-> undefined, send |-> <<>>, end |-> Throws("TypeError")]
  ELSE IF ev.Records[1].cf.response.status = "404" THEN
    IF ev.Records[1].cf.request.uri = undefined THEN
      [pc |-> "done", key |-> undefined, send |-> <<>>, end |-> Throws("TypeError")]
    ELSE
      [pc |-> "awaiting", key |-> BucketKey(ev.Records[1].cf.request.uri),
       send |-> <<BucketKey(ev.Records[1].cf.request.uri)>>,
       end |-> [delivered |-> <<>>, error |-> "none"]]
  ELSE
    [pc |-> "done", key |-> undefined, send |-> <<>>,
     end |-> ProbeDecideNoProbe(ev.Records[1].cf.response)]

\* CloudFront invokes the probe handler: it runs to its await or to its end
ProbeInvoke ==
  /\ variant = "probe"
  /\ pc = "idle"
  /\ \E ev \in Events :
       /\ event' = ev
       /\ pc' = ProbeStart(ev).pc
       /\ probeKey' = ProbeStart(ev).key
       /\ s3Requests' = s3Requests \o ProbeStart(ev).send
       /\ sendCalls' = sendCalls + Len(ProbeStart(ev).send)
       /\ delivered' = ProbeStart(ev).end.delivered
       /\ error' = ProbeStart(ev).end.error
  /\ UNCHANGED <<variant, bucket, s3Reply, probeResult, replayOf>>
  /\ UNCHANGED <<concVars, stackVars, viewerVars>>

\* the bucket answers the GetObject in flight; f is the failure that strikes
S3Answer(f) ==
  /\ s3Requests # <<>>
  /\ s3Reply = <<>>
  /\ s3Reply' = <<GetObject(bucket, Head(s3Requests), f)>>
  /\ s3Requests' = Tail(s3Requests)
  /\ UNCHANGED <<variant, bucket, event, pc, probeKey, sendCalls, probeResult,
                 delivered, error, replayOf>>
  /\ UNCHANGED <<concVars, stackVars, viewerVars>>

\* ProbeResume that rewrites request.uri to the key it probed
ProbeResumeRewritesUri ==
  /\ pc = "awaiting"
  /\ s3Reply # <<>>
  /\ probeResult' = Head(s3Reply)
  /\ s3Reply' = <<>>
  /\ LET r == ProbeAfterSend(Head(s3Reply), event.Records[1].cf.response,
                             event.Records[1].cf.config.distributionDomainName,
                             probeKey)
     IN /\ delivered' = r.delivered
        /\ error' = r.error
  /\ event' = [event EXCEPT !.Records[1].cf.request.uri = probeKey]
  /\ pc' = "done"
  /\ UNCHANGED <<variant, bucket, probeKey, s3Requests, sendCalls, replayOf>>
  /\ UNCHANGED <<concVars, stackVars, viewerVars>>

\* send() settles and the probe handler runs from its await to its end
ProbeResume ==
  /\ pc = "awaiting"
  /\ s3Reply # <<>>
  /\ probeResult' = Head(s3Reply)
  /\ s3Reply' = <<>>
  /\ LET r == ProbeAfterSend(Head(s3Reply), event.Records[1].cf.response,
                             event.Records[1].cf.config.distributionDomainName,
                             probeKey)
     IN /\ delivered' = r.delivered
        /\ error' = r.error
  /\ pc' = "done"
  /\ UNCHANGED <<variant, bucket, event, probeKey, s3Requests, sendCalls, replayOf>>
  /\ UNCHANGED <<concVars, stackVars, viewerVars>>

\* CloudFront takes the outcome; the next invocation starts from nothing
Complete ==
  /\ pc = "done"
  /\ pc' = "idle"
  /\ event' = NoEvent
  /\ probeKey' = undefined
  /\ sendCalls' = 0
  /\ probeResult' = "none"
  /\ delivered' = <<>>
  /\ error' = "none"
  /\ replayOf' = <<>>
  /\ UNCHANGED <<variant, bucket, s3Requests, s3Reply>>
  /\ UNCHANGED <<concVars, stackVars, viewerVars>>

\* the event of the invocation that ended, with its output in the place of
\* the origin response: same request, same distribution
ReplayEvent ==
  [Records |-> <<[cf |-> [response |-> delivered[1],
                          request |-> event.Records[1].cf.request,
                          config |-> event.Records[1].cf.config]]>>]

\* the inline handler is run again on a Passthrough output of its own
InlineReinvoke ==
  /\ variant = "inline"
  /\ pc = "done"
  /\ replayOf = <<>>
  /\ Len(event.Records) = 1
  /\ delivered = <<event.Records[1].cf.response>>
  /\ replayOf' = delivered
  /\ event' = ReplayEvent
  /\ delivered' = InlineHandler(ReplayEvent).delivered
  /\ error' = InlineHandler(ReplayEvent).error
  /\ UNCHANGED <<variant, bucket, pc, probeKey, s3Requests, s3Reply, sendCalls,
                 probeResult>>
  /\ UNCHANGED <<concVars, stackVars, viewerVars>>

\* the probe handler is run again on a Passthrough output of its own
ProbeReinvoke ==
  /\ variant = "probe"
  /\ pc = "done"
  /\ replayOf = <<>>
  /\ Len(event.Records) = 1
  /\ delivered = <<event.Records[1].cf.response>>
  /\ replayOf' = delivered
  /\ event' = ReplayEvent
  /\ pc' = ProbeStart(ReplayEvent).pc
  /\ probeKey' = ProbeStart(ReplayEvent).key
  /\ s3Requests' = s3Requests \o ProbeStart(ReplayEvent).send
  /\ sendCalls' = Len(ProbeStart(ReplayEvent).send)
  /\ probeResult' = "none"
  /\ delivered' = ProbeStart(ReplayEvent).end.delivered
  /\ error' = ProbeStart(ReplayEvent).end.error
  /\ UNCHANGED <<variant, bucket, s3Reply>>
  /\ UNCHANGED <<concVars, stackVars, viewerVars>>

Next ==
  \/ InlineInvoke
  \/ ProbeInvoke
  \/ \E f \in {"none"} \cup StorageAccessErrors : S3Answer(f)
  \/ ProbeResume
  \/ Complete
  \/ InlineReinvoke
  \/ ProbeReinvoke

Spec == Init /\ [][Next]_vars

\* ------------------------------------------------ concurrent invocations
\* the state of the one-at-a-time invocation
soloVars == <<event, pc, probeKey, s3Requests, s3Reply, sendCalls, probeResult,
              delivered, error, replayOf>>

\* URIs of concurrent events: two whose index document may be stored, one not
ConcurrentUris == {<<"/">>, <<"/", "a">>, <<"/", "a", "a">>}

\* events CloudFront hands to concurrent invocations
ConcurrentEvents ==
  {[Records |-> <<[cf |-> [response |-> [status |-> st, statusDescription |-> "OK",
                                         headers |-> OriginHeaders, body |-> absent],
                           request |-> [uri |-> u, method |-> "GET", headers |-> NoHeaders],
                           config |-> [distributionDomainName |-> <<"e">>]]]>>] :
     st \in {"200", "403", "404"}, u \in ConcurrentUris}

\* invocation i of the inline handler: it has no await and runs to its end
RunInline(i) ==
  /\ variant = "inline"
  /\ runs[i].pc = "idle"
  /\ \E ev \in ConcurrentEvents :
       runs' = [runs EXCEPT ![i] =
                  [pc |-> "done", event |-> ev, probeKey |-> undefined,
                   probeResult |-> "none",
                   delivered |-> InlineHandler(ev).delivered,
                   error |-> InlineHandler(ev).error]]
  /\ UNCHANGED <<variant, bucket, s3Wire, soloVars, stackVars, viewerVars>>

\* invocation i of the probe handler, to its await or to its end
RunProbe(i) ==
  /\ variant = "probe"
  /\ runs[i].pc = "idle"
  /\ \E ev \in ConcurrentEvents :
       /\ runs' = [runs EXCEPT ![i] =
                     [pc |-> ProbeStart(ev).pc, event |-> ev,
                      probeKey |-> ProbeStart(ev).key, probeResult |-> "none",
                      delivered |-> ProbeStart(ev).end.delivered,
                      error |-> ProbeStart(ev).end.error]]
       /\ s3Wire' = s3Wire \cup
            {[id |-> i, key |-> ProbeStart(ev).send[n], reply |-> "none"] :
               n \in 1..Len(ProbeStart(ev).send)}
  /\ UNCHANGED <<variant, bucket, soloVars, stackVars, viewerVars>>

\* the bucket answers the GetObject of invocation i; f is the failure that strikes
S3Serve(i, f) ==
  /\ \E msg \in s3Wire :
       /\ msg.id = i
       /\ msg.reply = "none"
       /\ s3Wire' = (s3Wire \ {msg}) \cup
            {[msg EXCEPT !.reply = GetObject(bucket, msg.key, f)]}
  /\ UNCHANGED <<variant, bucket, runs, soloVars, stackVars, viewerVars>>

\* ResumeProbe that takes whichever answer has arrived, its own or another's
ResumeProbeAnyReply(i) ==
  /\ runs[i].pc = "awaiting"
  /\ \E msg \in s3Wire :
       /\ msg.reply # "none"
       /\ s3Wire' = s3Wire \ {msg}
       /\ LET r == ProbeAfterSend(msg.reply, runs[i].event.Records[1].cf.response,
                     runs[i].event.Records[1].cf.config.distributionDomainName,
                     runs[i].probeKey)
          IN runs' = [runs EXCEPT ![i].pc = "done",
                                  ![i].probeResult = msg.reply,
                                  ![i].delivered = r.delivered,
                                  ![i].error = r.error]
  /\ UNCHANGED <<variant, bucket, soloVars, stackVars, viewerVars>>

\* the send() of invocation i settles with the answer to its own command and
\* the handler runs from its await to its end
ResumeProbe(i) ==
  /\ runs[i].pc = "awaiting"
  /\ \E msg \in s3Wire :
       /\ msg.id = i
       /\ msg.reply # "none"
       /\ s3Wire' = s3Wire \ {msg}
       /\ LET r == ProbeAfterSend(msg.reply, runs[i].event.Records[1].cf.response,
                     runs[i].event.Records[1].cf.config.distributionDomainName,
                     runs[i].probeKey)
          IN runs' = [runs EXCEPT ![i].pc = "done",
                                  ![i].probeResult = msg.reply,
                                  ![i].delivered = r.delivered,
                                  ![i].error = r.error]
  /\ UNCHANGED <<variant, bucket, soloVars, stackVars, viewerVars>>

\* CloudFront takes the outcome of invocation i; its environment is free again
Finish(i) ==
  /\ runs[i].pc = "done"
  /\ runs' = [runs EXCEPT ![i] = IdleRun]
  /\ UNCHANGED <<variant, bucket, s3Wire, soloVars, stackVars, viewerVars>>

NextConcurrent ==
  \/ \E i \in Ids : RunInline(i)
  \/ \E i \in Ids : RunProbe(i)
  \/ \E i \in Ids, f \in {"none"} \cup StorageAccessErrors : S3Serve(i, f)
  \/ \E i \in Ids : ResumeProbe(i)
  \/ \E i \in Ids : Finish(i)

SpecConcurrent == Init /\ [][NextConcurrent]_vars

\* ------------------------------------------------- constructing the stack
\* the state of the handlers, which a construction does not touch
handlerVars == <<variant, bucket, soloVars, concVars>>

\* no handler invocation is under way
HandlersIdle ==
  /\ event = NoEvent
  /\ pc = "idle"
  /\ probeKey = undefined
  /\ s3Requests = <<>>
  /\ s3Reply = <<>>
  /\ sendCalls = 0
  /\ probeResult = "none"
  /\ delivered = <<>>
  /\ error = "none"
  /\ replayOf = <<>>
  /\ runs = [i \in Ids |-> IdleRun]
  /\ s3Wire = {}

\* no handler runs: the distribution is not deployed yet
NotDeployed ==
  /\ variant = "inline"
  /\ bucket = {}
  /\ HandlersIdle
  /\ viewer = NoViewer

\* new NuxtStack(scope, id, props)
InitStack ==
  /\ props \in StackProps
  /\ Unbuilt
  /\ NotDeployed

\* part_000 12-18: check mandatory properties
CheckMandatory ==
  /\ spc = "new"
  /\ thrown' = checkMandatory(props)
  /\ spc' = IF checkMandatory(props) = "none" THEN "checked" ELSE "failed"
  /\ UNCHANGED <<props, stack, handlerVars, viewerVars>>

\* part_000 21: new ServerConstruct(this, 'Server', props)
CreateServer ==
  /\ spc = "checked"
  /\ thrown' = ServerConstruct(props).error
  /\ IF ServerConstruct(props).error = "none"
     THEN /\ stack' = [stack EXCEPT !.server = ServerConstruct(props).server]
          /\ spc' = "server"
     ELSE /\ stack' = stack
          /\ spc' = "failed"
  /\ UNCHANGED <<props, handlerVars, viewerVars>>

\* part_000 24-26: new ClientConstruct(this, 'Client', props, {httpOrigin})
CreateClient ==
  /\ spc = "server"
  /\ stack' = [stack EXCEPT !.client = ClientConstruct(props)]
  /\ spc' = "client"
  /\ UNCHANGED <<props, thrown, handlerVars, viewerVars>>

\* part_000 35-60: the origin access control patch of the distribution
PatchOriginAccessControl ==
  /\ spc = "client"
  /\ stack' = [stack EXCEPT !.oacPatched = TRUE]
  /\ spc' = "done"
  /\ UNCHANGED <<props, thrown, handlerVars, viewerVars>>

NextStack ==
  \/ CheckMandatory
  \/ CreateServer
  \/ CreateClient
  \/ PatchOriginAccessControl

SpecStack == InitStack /\ [][NextStack]_vars

\* ------------------------------------------- the deployed distribution
\* most redirects a viewer follows for one request
MaxHops == 3

\* the characters of a path pattern
PatternText(q) ==
  CASE q = "/api/*" -> <<"/", "a", "p", "i", "/", "*">>
    [] q = "/a/*" -> <<"/", "a", "/", "*">>
    [] q = "*.*" -> <<"*", ".", "*">>

\* a path pattern matches a URI: * stands for any characters, ? for one
RECURSIVE globMatch(_, _)
globMatch(pattern, uri) ==
  IF pattern = <<>> THEN uri = <<>>
  ELSE IF Head(pattern) = "*" THEN
    \/ globMatch(Tail(pattern), uri)
    \/ uri # <<>> /\ globMatch(pattern, Tail(uri))
  ELSE /\ uri # <<>>
       /\ Head(pattern) = "?" \/ Head(pattern) = Head(uri)
       /\ globMatch(Tail(pattern), Tail(uri))

\* the URIs viewers ask for
ViewerUris ==
  Uris \cup {<<"/", "a", "p", "i", "/">>, <<"/", "a", "p", "i", "/", "a">>,
             <<"/", "a", "p", "i", "/", "a", ".", "a">>}

\* the statuses the Nuxt server answers with, its own redirects left aside
ServerStatuses == {"200", "403", "404", "500"}

\* an origin's response with status st
OriginAnswer(st) ==
  [status |-> st, statusDescription |-> IF st = "200" THEN "OK" ELSE "Not Found",
   headers |-> OriginHeaders, body |-> "origin body"]

\* what CloudFront answers when the edge function fails
LambdaFault ==
  [status |-> "502", statusDescription |-> "Bad Gateway", headers |-> NoHeaders,
   body |-> absent]

\* the distribution of the stack
Cdn == CHOOSE d \in stack.client.distributions : TRUE

\* the assets bucket of the stack
AssetsBucket == CHOOSE b \in stack.client.buckets : TRUE

\* the pattern of the cache behaviour that serves a URI: the first of the
\* additional behaviours that matches, else the default behaviour
route(d, uri) ==
  LET matching == {i \in 1..Len(d.behaviorOrder) :
                     globMatch(PatternText(d.behaviorOrder[i]), uri)}
  IN IF matching = {} THEN "(default)"
     ELSE d.behaviorOrder[CHOOSE i \in matching : \A j \in matching : i <= j]

behaviorOf(d, q) ==
  IF q = "(default)" THEN d.defaultBehavior ELSE d.additionalBehaviors[q]

\* the statuses the assets bucket answers a GET of key with: the object, a
\* failure, or for a missing key 404 to a caller that may list the bucket
\* and 403 to one that may not
S3Statuses(b, stored, key) ==
  {"500"} \cup
  {IF key \in stored THEN "200"
   ELSE IF "s3:ListBucket" \in b.policyActions THEN "404" ELSE "403"}

\* the origin-response event of the viewer's request
ViewerEvent(v) ==
  [Records |->
     <<[cf |-> [response |-> v.originResponse[1],
                request |-> [uri |-> v.uri, method |-> "GET", headers |-> NoHeaders],
                config |-> [distributionDomainName |-> v.host]]]>>]

\* the values of the Location header of a response; header names are
\* case-insensitive to the viewer
LocationHeader(r) ==
  {r.headers[n][i].value :
     n \in DOMAIN r.headers \cap {"Location", "location"}, i \in 1..1}

\* the path a viewer asks for when it follows Location loc from uri
FollowTarget(h, uri, loc) ==
  IF startsWith(loc, Https \o h)
  THEN SubSeq(loc, Len(Https) + Len(h) + 1, Len(loc))
  ELSE SubSeq(uri, 1, CHOOSE i \in 1..Len(uri) :
                        uri[i] = "/" /\ \A j \in (i + 1)..Len(uri) : uri[j] # "/")
       \o loc

\* the stack is deployed for some props and the bucket holds some objects
InitViewer ==
  /\ props \in PathVariations
  /\ stack = [server |-> ServerConstruct(props).server,
              client |-> ClientConstruct(props), oacPatched |-> TRUE]
  /\ spc = "done"
  /\ thrown = "none"
  /\ variant = "inline"
  /\ bucket \in SUBSET StorableKeys
  /\ HandlersIdle
  /\ viewer = NoViewer

\* a viewer asks the distribution for a URI; CloudFront picks the behaviour
ViewerRequest ==
  /\ viewer.phase = "idle"
  /\ \E h \in Hosts, u \in ViewerUris :
       viewer' = [NoViewer EXCEPT !.phase = "routed", !.host = h, !.uri = u,
                                  !.pattern = route(Cdn, u)]
  /\ UNCHANGED <<handlerVars, stackVars>>

\* the origin of the behaviour answers
OriginRespond ==
  /\ viewer.phase = "routed"
  /\ \E st \in IF behaviorOf(Cdn, viewer.pattern).origin = "s3"
                THEN S3Statuses(AssetsBucket, bucket, viewer.uri)
                ELSE ServerStatuses :
       viewer' = [viewer EXCEPT !.phase = "origin",
                                !.originResponse = <<OriginAnswer(st)>>]
  /\ UNCHANGED <<handlerVars, stackVars>>

\* the behaviour has the edge function at origin-response: the handler runs
\* on the origin's response and its result goes to the viewer
Resolve ==
  /\ viewer.phase = "origin"
  /\ \E l \in behaviorOf(Cdn, viewer.pattern).edgeLambdas :
       l.eventType = "origin-response"
  /\ viewer' = [viewer EXCEPT
       !.phase = "answered", !.ran = TRUE,
       !.answer = IF InlineHandler(ViewerEvent(viewer)).error = "none"
                  THEN InlineHandler(ViewerEvent(viewer)).delivered
                  ELSE <<LambdaFault>>]
  /\ UNCHANGED <<handlerVars, stackVars>>

\* the behaviour has no edge function: the origin's response goes to the viewer
Forward ==
  /\ viewer.phase = "origin"
  /\ behaviorOf(Cdn, viewer.pattern).edgeLambdas = {}
  /\ viewer' = [viewer EXCEPT !.phase = "answered", !.answer = viewer.originResponse]
  /\ UNCHANGED <<handlerVars, stackVars>>

\* the viewer follows the 302 the handler issued
FollowRedirect ==
  /\ viewer.phase = "answered"
  /\ viewer.ran
  /\ viewer.answer[1].status = "302"
  /\ viewer.hops < MaxHops
  /\ \E loc \in LocationHeader(viewer.answer[1]) :
       viewer' = [NoViewer EXCEPT
         !.phase = "routed", !.host = viewer.host,
         !.uri = FollowTarget(viewer.host, viewer.uri, loc),
         !.pattern = route(Cdn, FollowTarget(viewer.host, viewer.uri, loc)),
         !.hops = viewer.hops + 1]
  /\ UNCHANGED <<handlerVars, stackVars>>

NextViewer ==
  \/ ViewerRequest
  \/ OriginRespond
  \/ Resolve
  \/ Forward
  \/ FollowRedirect

SpecViewer == InitViewer /\ [][NextViewer]_vars

\* ------------------------------------------- the current invocation's inputs
\* event.Records[0] exists
HasRecord == Len(event.Records) = 1

\* const response / request / host of the handlers
response == event.Records[1].cf.response
request == event.Records[1].cf.request
host == event.Records[1].cf.config.distributionDomainName

\* the invocation has ended on an event that carries an origin response
Ended == pc = "done" /\ HasRecord

\* the values of the Location header of r, under whatever name the map has it
LocationValues(r) ==
  {r.headers[n][i].value : n \in DOMAIN r.headers, i \in 1..1}

\* the 404 page of the specification
NotFoundPage(headers) ==
  [status |-> "404", statusDescription |-> "Not Found",
   headers |-> headers, body |-> "<h1>404 Not Found</h1>"]

\* the candidate index document of a URI, as the specification defines it
Candidate(uri) ==
  IF uri[Len(uri)] = "/" THEN uri \o IndexHtml ELSE uri \o <<"/">> \o IndexHtml

\* ------------------------------------------------------------------ claims

\* C1: in both variants, an origin response whose status is neither "404"
\* nor "403" is handed back as it came (status, statusDescription, headers
\* and body unchanged), and no storage lookup is made.
C1_PassthroughIdentity ==
  (Ended /\ response.status \notin {"404", "403"}) =>
    /\ delivered = <<response>>
    /\ error = "none"
    /\ sendCalls = 0
    /\ s3Requests = <<>>

C1_Witness ==
  /\ Ended
  /\ variant = "probe"
  /\ response.status = "500"
  /\ response.body = "origin body"
  /\ delivered = <<response>>

\* C2: in both variants, an origin response with status "403" is answered
\* with status "404", statusDescription "Not Found", the body
\* "<h1>404 Not Found</h1>" and the origin's headers, whatever the URI is.
C2_ForbiddenBecomesNotFound ==
  (Ended /\ response.status = "403") =>
    /\ delivered = <<NotFoundPage(response.headers)>>
    /\ error = "none"

C2_Witness ==
  /\ Ended
  /\ variant = "inline"
  /\ response.status = "403"
  /\ response.headers = OriginHeaders
  /\ request.uri = undefined
  /\ Len(delivered) = 1
  /\ delivered[1].status = "404"

\* C3 (as claimed): the inline variant hands back the original 404 when the
\* URI does not end with "/" and contains a ".".
C3_DotUriPassthrough ==
  (/\ Ended
   /\ variant = "inline"
   /\ response.status = "404"
   /\ request.uri # undefined
   /\ ~endsWith(request.uri, <<"/">>)
   /\ includes(request.uri, ".")) =>
    delivered = <<response>>

\* C4 (as claimed): in the probe variant a probe failure other than "no such
\* key" leaves the handler as an exception; no response is returned.
C4_StorageErrorPropagates ==
  (pc = "done" /\ variant = "probe" /\ probeResult \in StorageAccessErrors) =>
    /\ error # "none"
    /\ delivered = <<>>

\* C5: in the probe variant, on a 404 the key probed is the URI followed by
\* "index.html" when the URI ends with "/" and by "/index.html" otherwise;
\* when the probe succeeds the output is a 302 whose Location is
\* "https://" + host + that key.
C5_ProbeCandidateAndRedirect ==
  (/\ variant = "probe"
   /\ pc \in {"awaiting", "done"}
   /\ HasRecord
   /\ response.status = "404"
   /\ request.uri # undefined) =>
    /\ probeKey = Candidate(request.uri)
    /\ \A i \in 1..Len(s3Requests) : s3Requests[i] = Candidate(request.uri)
    /\ (pc = "done" /\ probeResult = "ok") =>
         /\ Len(delivered) = 1
         /\ delivered[1].status = "302"
         /\ LocationValues(delivered[1]) = {Https \o host \o Candidate(request.uri)}

C5_Witness ==
  /\ Ended
  /\ variant = "probe"
  /\ response.status = "404"
  /\ request.uri = <<"/", "a">>
  /\ probeResult = "ok"
  /\ Len(delivered) = 1
  /\ delivered[1].status = "302"

\* C6: in the probe variant, on a 404 whose candidate key the bucket does not
\* hold, the output is the original 404 response, unchanged.
C6_ProbeMissPassthrough ==
  (Ended /\ variant = "probe" /\ response.status = "404" /\ probeResult = NoSuchKey) =>
    /\ delivered = <<response>>
    /\ error = "none"

C6_Witness ==
  /\ Ended
  /\ variant = "probe"
  /\ response.status = "404"
  /\ probeResult = NoSuchKey
  /\ probeKey \notin bucket
  /\ delivered = <<response>>

\* C7: in the inline variant, on a 404 a URI that ends with "/" (with or
\* without a ".") is redirected with a 302 to "https://" + host + uri +
\* "index.html", and a URI without trailing "/" and without "." to
\* "https://" + host + uri + "/index.html".
C7_InlineRedirectTargets ==
  (Ended /\ variant = "inline" /\ response.status = "404" /\ request.uri # undefined) =>
    LET uri == request.uri IN
    /\ uri[Len(uri)] = "/" =>
         /\ Len(delivered) = 1
         /\ delivered[1].status = "302"
         /\ LocationValues(delivered[1]) = {Https \o host \o uri \o IndexHtml}
    /\ (uri[Len(uri)] # "/" /\ \A i \in 1..Len(uri) : uri[i] # ".") =>
         /\ Len(delivered) = 1
         /\ delivered[1].status = "302"
         /\ LocationValues(delivered[1]) = {Https \o host \o uri \o <<"/">> \o IndexHtml}

C7_Witness ==
  /\ Ended
  /\ variant = "inline"
  /\ response.status = "404"
  /\ request.uri = <<"/", ".", "/">>
  /\ Len(delivered) = 1
  /\ delivered[1].status = "302"

\* C8 (as claimed): no exception leaves a handler except a propagated probe
\* failure, and a handler that meets an internal error (a request without
\* uri on a 404) returns the original origin response.
C8_InternalErrorsDegrade ==
  pc = "done" =>
    /\ error # "none" => probeResult \in StorageAccessErrors
    /\ (HasRecord /\ response.status = "404" /\ request.uri = undefined) =>
         delivered = <<response>>

\* C9 (as claimed): every invocation delivers exactly one decision.
C9_ExactlyOneDecision ==
  pc = "done" => Len(delivered) = 1

\* C10 (as claimed): a 302 that a handler builds has statusDescription
\* "Found" and a headers map whose only entry is under "location", a single
\* {key: "Location", value} whose value is defined and begins with
\* "https://" + host + "/".
C10_RedirectShape ==
  (/\ Ended
   /\ response.status = "404"
   /\ Len(delivered) = 1
   /\ delivered[1].status = "302") =>
    /\ delivered[1].statusDescription = "Found"
    /\ DOMAIN delivered[1].headers = {"location"}
    /\ Len(delivered[1].headers["location"]) = 1
    /\ delivered[1].headers["location"][1].key = "Location"
    /\ delivered[1].headers["location"][1].value # undefined
    /\ startsWith(delivered[1].headers["location"][1].value, Https \o host \o <<"/">>)

\* C11 (as claimed): a handler run again on its own Passthrough output, with
\* the same request, host and bucket contents, returns that same output.
C11_PassthroughIdempotent ==
  (pc = "done" /\ replayOf # <<>>) => delivered = replayOf

\* the event ev with method m and request headers h in the place of its own
WithMethodAndHeaders(ev, m, h) ==
  [ev EXCEPT !.Records[1].cf.request.method = m,
             !.Records[1].cf.request.headers = h]

\* how the deployed handler ends on event ev when its probe, if it sends one,
\* settles as reply
Outcome(ev, reply) ==
  IF variant = "inline" THEN InlineHandler(ev)
  ELSE IF ProbeStart(ev).pc = "done" THEN ProbeStart(ev).end
  ELSE ProbeAfterSend(reply, ev.Records[1].cf.response,
                      ev.Records[1].cf.config.distributionDomainName,
                      ProbeStart(ev).key)

\* C12: the outcome of an invocation is the outcome of the handler on every
\* event that differs from the invocation's only in request method and
\* request headers (same response, URI, host and probe result).
C12_MethodAndHeadersIgnored ==
  Ended =>
    \A m \in Methods, h \in RequestHeaderMaps :
      Outcome(WithMethodAndHeaders(event, m, h), probeResult)
        = [delivered |-> delivered, error |-> error]

C12_Witness ==
  /\ Ended
  /\ variant = "inline"
  /\ request.method = "HEAD"
  /\ request.headers # NoHeaders
  /\ response.status = "404"
  /\ request.uri = <<"/", "a">>
  /\ Len(delivered) = 1
  /\ delivered[1].status = "302"

\* C13: an invocation of the probe handler sends at most one GetObject, only
\* on a 404, and no second one after the first has failed; the inline
\* handler sends none.
C13_AtMostOneProbe ==
  /\ sendCalls <= 1
  /\ Len(s3Requests) + Len(s3Reply) <= 1
  /\ sendCalls = 1 => variant = "probe" /\ HasRecord /\ response.status = "404"
  /\ variant = "inline" => sendCalls = 0 /\ s3Requests = <<>> /\ s3Reply = <<>>
  /\ (pc = "done" /\ probeResult \notin {"none", "ok"}) =>
       sendCalls = 1 /\ s3Requests = <<>>

C13_Witness ==
  /\ pc = "done"
  /\ variant = "probe"
  /\ probeResult = "SlowDown"
  /\ sendCalls = 1
  /\ s3Requests = <<>>

\* the request records an event carries
RequestsOf(ev) == {ev.Records[i].cf.request : i \in 1..Len(ev.Records)}

\* C14: no step changes the keys the bucket holds, and no step of an
\* invocation changes the URI, method or headers of its request.
C14_StorageAndRequestUntouched ==
  [][/\ bucket' = bucket
     /\ (pc # "idle" /\ pc' # "idle") => RequestsOf(event') = RequestsOf(event)]_vars

C14_Witness ==
  /\ Ended
  /\ variant = "probe"
  /\ probeResult = "ok"
  /\ request.uri = <<"/">>
  /\ bucket = StorableKeys
  /\ Len(delivered) = 1
  /\ delivered[1].status = "302"

\* the outcome invocation i would have alone when the failure f strikes its
\* probe: decided by its own event and the bucket only
AloneOutcome(i, f) ==
  Outcome(runs[i].event,
          GetObject(bucket, Candidate(runs[i].event.Records[1].cf.request.uri), f))

\* C15: whatever the interleaving, an invocation ends as it would alone on the
\* same event and bucket: its probe settles with the answer for its own key
\* and its outcome is the one that answer gives.
C15_InvocationsIndependent ==
  \A i \in Ids :
    runs[i].pc = "done" =>
      \E f \in {"none"} \cup StorageAccessErrors :
        /\ AloneOutcome(i, f) = [delivered |-> runs[i].delivered, error |-> runs[i].error]
        /\ runs[i].probeResult # "none" =>
             runs[i].probeResult =
               GetObject(bucket, Candidate(runs[i].event.Records[1].cf.request.uri), f)

C15_Witness ==
  /\ variant = "probe"
  /\ runs[1].pc = "done"
  /\ runs[1].probeResult = "ok"
  /\ Len(runs[1].delivered) = 1
  /\ runs[1].delivered[1].status = "302"
  /\ runs[2].pc = "awaiting"
  /\ runs[2].probeKey \notin bucket
  /\ \E msg \in s3Wire : msg.id = 2 /\ msg.reply = NoSuchKey

\* ------------------------------------------------ claims about the stack
\* the constructor has returned
Constructed == spc = "done"

\* the server construct exists
ServerBuilt == spc \in {"server", "client", "done"}

\* the behaviours of a distribution: the default one and the additional ones
Behaviours(d) ==
  {d.defaultBehavior} \cup
  {d.additionalBehaviors[q] : q \in DOMAIN d.additionalBehaviors}

\* C16: the custom headers of the headers prop are added to the responses of
\* every behaviour of the distribution (default, server paths, '*.*'), also
\* when a responseHeadersPolicy prop is given
C16_CustomHeadersOnEveryResponse ==
  (Constructed /\ props.headers # NotGiven) =>
    \A d \in stack.client.distributions :
      \A b \in Behaviours(d) :
        \A e \in props.headers[1] :
          \E pol \in b.responseHeadersPolicy :
            \E h \in pol.customHeaders : h.header = e[1] /\ h.value = e[2]

\* an optional array that is given and has elements
NonEmpty(o) == o # NotGiven /\ o[1] # <<>>

\* C17: a non-empty allowQueryParams gives an allow list of exactly those
\* parameters whatever denyQueryParams is; otherwise a non-empty
\* denyQueryParams gives a deny list of exactly those; otherwise no query
\* parameter is in the cache key
C17_QueryStringSelection ==
  Constructed =>
    \A d \in stack.client.distributions :
      LET q == d.serverCachePolicy.queryStringBehavior
      IN /\ NonEmpty(props.allowQueryParams) =>
              q.behavior = "whitelist" /\ q.queryStrings = props.allowQueryParams[1]
         /\ (~NonEmpty(props.allowQueryParams) /\ NonEmpty(props.denyQueryParams)) =>
              q.behavior = "allExcept" /\ q.queryStrings = props.denyQueryParams[1]
         /\ (~NonEmpty(props.allowQueryParams) /\ ~NonEmpty(props.denyQueryParams)) =>
              q.behavior = "none" /\ q.queryStrings = <<>>

\* both lists are given and non-empty, and the allow list is the one in use
C17_Witness ==
  /\ Constructed
  /\ NonEmpty(props.allowQueryParams)
  /\ NonEmpty(props.denyQueryParams)
  /\ props.allowQueryParams # props.denyQueryParams
  /\ \E d \in stack.client.distributions :
       d.serverCachePolicy.queryStringBehavior.behavior = "whitelist"

\* C18: an errorPagePath other than the default '/index.html' changes what
\* is deployed to answer a 404: the client construct differs from the one
\* built without errorPagePath
C18_ErrorPagePathTakesEffect ==
  (/\ Constructed
   /\ props.errorPagePath # NotGiven
   /\ props.errorPagePath # <<"/index.html">>) =>
    stack.client # ClientConstruct([props EXCEPT !.errorPagePath = NotGiven])

\* the props with serverProps.runtime left out
WithoutRuntime == [props EXCEPT !.serverProps.runtime = NotGiven]

\* C19: there is exactly one server function, a container-image function
\* when dockerFile is set and a zip function otherwise, and with dockerFile
\* set every resource is what it is without the runtime prop
C19_ServerFunctionSelection ==
  /\ ServerBuilt =>
       /\ Cardinality(stack.server.functions) = 1
       /\ \A f \in stack.server.functions :
            f.kind = IF TruthyString(props.serverProps.dockerFile)
                     THEN "image" ELSE "zip"
  /\ (Constructed /\ TruthyString(props.serverProps.dockerFile)) =>
       /\ stack.server = ServerConstruct(WithoutRuntime).server
       /\ stack.client = ClientConstruct(WithoutRuntime)

\* serverProps.variables and serverProps.secrets as arrays
GivenVariables ==
  IF props.serverProps.variables = NotGiven THEN <<>>
  ELSE props.serverProps.variables[1]

GivenSecrets ==
  IF props.serverProps.secrets = NotGiven THEN <<>>
  ELSE props.serverProps.secrets[1]

\* the positions of the key/value pairs of serverProps.variables
VariablePairs ==
  {pos \in (1..MaxListLen + 1) \X (1..MaxListLen + 1) :
     pos[1] <= Len(GivenVariables) /\ pos[2] <= Len(GivenVariables[pos[1]])}

keyAt(pos) == GivenVariables[pos[1]][pos[2]][1]

valueAt(pos) == GivenVariables[pos[1]][pos[2]][2]

\* pair b comes after pair a
Later(a, b) == b[1] > a[1] \/ (b[1] = a[1] /\ b[2] > a[2])

\* the environment of the server function
ServerEnvironment == UNION {f.environment : f \in stack.server.functions}

\* the secrets have their variable and their read grant
SecretsExposed ==
  \A i \in 1..Len(GivenSecrets) :
    /\ \E e \in ServerEnvironment : e.key = GivenSecrets[i].key
    /\ \E g \in stack.server.grants : g.secret = GivenSecrets[i].resource

\* C20 as stated: every secret has its variable and its read grant, and
\* every key/value pair of variables is an environment variable with that
\* value
C20_SecretsAndVariablesSet ==
  ServerBuilt =>
    /\ SecretsExposed
    /\ \A pos \in VariablePairs :
         \E e \in ServerEnvironment : e.key = keyAt(pos) /\ e.value = valueAt(pos)

\* the key of a pair is bound again by a later pair or by a secret
Rebound(pos) ==
  \/ \E later \in VariablePairs : Later(pos, later) /\ keyAt(later) = keyAt(pos)
  \/ \E i \in 1..Len(GivenSecrets) : GivenSecrets[i].key = keyAt(pos)

\* C20 amended: every secret has its variable and its read grant; every key
\* of variables is an environment variable, with the value of the pair
\* unless a later pair or a secret binds the same key; a key that a secret
\* binds holds the secret
C20_LastBindingWins ==
  ServerBuilt =>
    /\ SecretsExposed
    /\ \A pos \in VariablePairs :
         \E e \in ServerEnvironment :
           /\ e.key = keyAt(pos)
           /\ ~Rebound(pos) => (e.value = valueAt(pos) /\ ~e.secret)
    /\ \A i \in 1..Len(GivenSecrets) :
         \A e \in ServerEnvironment :
           e.key = GivenSecrets[i].key =>
             (e.secret /\ e.value = GivenSecrets[i].resource)

\* a secret is exposed and granted, one pair is replaced by a later pair
\* with another value and one pair stands
C20_Witness ==
  /\ ServerBuilt
  /\ Len(GivenSecrets) > 0
  /\ \E a, b \in VariablePairs :
       Later(a, b) /\ keyAt(a) = keyAt(b) /\ valueAt(a) # valueAt(b)
  /\ \E pos \in VariablePairs :
       /\ ~Rebound(pos)
       /\ \E e \in ServerEnvironment : e.key = keyAt(pos) /\ e.value = valueAt(pos)

\* C21: the keep-warm rule (every 5 minutes, targeting the server function
\* with a GET / event) exists if and only if serverProps.keepWarm is truthy
C21_KeepWarmRule ==
  ServerBuilt =>
    IF props.serverProps.keepWarm = <<TRUE>>
    THEN /\ Cardinality(stack.server.rules) = 1
         /\ \A r \in stack.server.rules :
              /\ r.rateMinutes = 5
              /\ r.target \in {f.id : f \in stack.server.functions}
              /\ r.event.method = "GET"
              /\ r.event.rawPath = "/"
    ELSE stack.server.rules = {}

C21_Witness ==
  /\ ServerBuilt
  /\ props.serverProps.keepWarm = <<TRUE>>
  /\ TruthyString(props.serverProps.dockerFile)
  /\ \E r \in stack.server.rules : r.target = "ContainerFunction"

\* the value of a server prop, or d when the prop is absent
GivenOr(o, d) == IF o = NotGiven THEN d ELSE o[1]

\* C22 as stated: an absent field gives runtime nodejs20.x, architecture
\* arm64, memorySize 1792, timeout 10 s, tracing disabled and exclude [];
\* a supplied field gives the supplied value
C22_SuppliedValueUsed ==
  ServerBuilt =>
    \A f \in stack.server.functions :
      /\ f.kind = "zip" => f.runtime = GivenOr(props.serverProps.runtime, "nodejs20.x")
      /\ f.architecture = GivenOr(props.serverProps.architecture, "arm64")
      /\ f.memorySize = GivenOr(props.serverProps.memorySize, 1792)
      /\ f.timeout = GivenOr(props.serverProps.timeout, 10)
      /\ f.tracing = IF GivenOr(props.serverProps.tracing, FALSE)
                     THEN "Active" ELSE "Disabled"
      /\ f.exclude = GivenOr(props.serverProps.exclude, <<>>)

\* the value of a numeric server prop, or d when it is absent or 0
NonZeroOr(o, d) == IF o = NotGiven \/ o = <<0>> THEN d ELSE o[1]

\* C22 amended: as stated, except that a memorySize or a timeout of 0
\* counts as absent
C22_DefaultsUnlessGiven ==
  ServerBuilt =>
    \A f \in stack.server.functions :
      /\ f.kind = "zip" => f.runtime = GivenOr(props.serverProps.runtime, "nodejs20.x")
      /\ f.architecture = GivenOr(props.serverProps.architecture, "arm64")
      /\ f.memorySize = NonZeroOr(props.serverProps.memorySize, 1792)
      /\ f.timeout = NonZeroOr(props.serverProps.timeout, 10)
      /\ f.tracing = IF GivenOr(props.serverProps.tracing, FALSE)
                     THEN "Active" ELSE "Disabled"
      /\ f.exclude = GivenOr(props.serverProps.exclude, <<>>)

\* a zip function with one field supplied, one absent and a timeout of 0
C22_Witness ==
  /\ ServerBuilt
  /\ props.serverProps.memorySize = <<512>>
  /\ props.serverProps.architecture = NotGiven
  /\ props.serverProps.timeout = <<0>>
  /\ \E f \in stack.server.functions :
       f.kind = "zip" /\ f.memorySize = 512 /\ f.architecture = "arm64" /\ f.timeout = 10

\* C23: whenever the inline variant answers a 404 with a 302, the target is
\* the one the probe variant gives for the same URI and host when its probe
\* succeeds; and on every status other than "404" the outcome is the one
\* each of the two variants produces
C23_VariantsAgree ==
  Ended =>
    /\ (/\ variant = "inline"
        /\ response.status = "404"
        /\ Len(delivered) = 1
        /\ delivered[1].status = "302") =>
         LocationValues(delivered[1])
           = LocationValues(ProbeRedirectResponse(host, BucketKey(request.uri)))
    /\ response.status # "404" =>
         /\ [delivered |-> delivered, error |-> error] = InlineHandler(event)
         /\ [delivered |-> delivered, error |-> error] = ProbeStart(event).end

\* ---------------------------------- claims about the deployed distribution
\* the viewer's request has been answered
Answered == viewer.phase = "answered"

\* the answer is a 302 of the resolver
ResolverRedirect ==
  Answered /\ viewer.ran /\ viewer.answer[1].status = "302"

\* C24: a viewer that follows a 302 of the resolver asks for a URI ending
\* in "/index.html", the answer to that request is not a 302 of the
\* resolver, and so no request takes more than one redirect
C24_RedirectsDoNotChain ==
  /\ viewer.hops <= 1
  /\ viewer.hops = 1 =>
       /\ endsWith(viewer.uri, <<"/">> \o IndexHtml)
       /\ ~ResolverRedirect

\* a redirect was followed and the missing document was answered with the
\* 404 page
C24_Witness ==
  /\ viewer.hops = 1
  /\ Answered
  /\ viewer.ran
  /\ viewer.uri = <<"/", "a">> \o SlashIndexHtml
  /\ viewer.originResponse[1].status = "403"
  /\ viewer.answer[1].status = "404"

\* ------------------------------------------- further claims about the stack
\* a mandatory string that is missing or empty
Missing(o) == o = NotGiven \/ o = <<"">>

\* C25: construction fails with 'Must provide AWS account and region.' when
\* env is missing, whatever else is missing, and with 'Mandatory stack
\* properties missing.' when env is given and application, environment or
\* service is missing or empty; after either failure the stack holds no
\* server and no client construct
C25_MandatoryPropsChecked ==
  spc # "new" =>
    /\ props.env = NotGiven =>
         spc = "failed" /\ thrown = "Must provide AWS account and region."
    /\ (/\ props.env # NotGiven
        /\ \/ Missing(props.application)
           \/ Missing(props.environment)
           \/ Missing(props.service)) =>
         spc = "failed" /\ thrown = "Mandatory stack properties missing."
    /\ thrown \in {"Must provide AWS account and region.",
                   "Mandatory stack properties missing."} =>
         stack.server = NoServer /\ stack.client = NoClient

C25_Witness ==
  /\ spc = "failed"
  /\ props.env = NotGiven
  /\ props.service = <<"">>
  /\ thrown = "Must provide AWS account and region."
  /\ stack = EmptyStack

\* an optional string that is given and not empty
IsSet(o) == o # NotGiven /\ o # <<"">>

\* C26: DNS records exist only when domain, globalCertificateArn and
\* hostedZoneId are all set; they are an A and an AAAA record for the domain;
\* with them the distribution has the domain as its alias and the global
\* certificate; with no domain there is no DNS record, no alias and no
\* custom domain of the API
C26_DomainWiring ==
  Constructed =>
    /\ stack.client.dnsRecords # {} =>
         /\ IsSet(props.domain)
         /\ IsSet(props.globalCertificateArn)
         /\ IsSet(props.hostedZoneId)
         /\ {r.type : r \in stack.client.dnsRecords} = {"A", "AAAA"}
         /\ \A r \in stack.client.dnsRecords : r.recordName = props.domain[1]
         /\ \A d \in stack.client.distributions :
              /\ d.domainNames = {props.domain[1]}
              /\ d.certificate = {props.globalCertificateArn[1]}
    /\ ~IsSet(props.domain) =>
         /\ stack.client.dnsRecords = {}
         /\ \A d \in stack.client.distributions : d.domainNames = {}
         /\ \A api \in stack.server.apis : api.defaultDomainMapping = {}

C26_Witness ==
  /\ Constructed
  /\ Cardinality(stack.client.dnsRecords) = 2
  /\ props.regionalCertificateArn = NotGiven
  /\ \E d \in stack.client.distributions : d.domainNames = {"example.com"}

\* the server paths: serverProps.paths, or '/api/*' when it is absent
PathsOrDefault == GivenOr(props.serverProps.paths, <<"/api/*">>)

PathSet == {PathsOrDefault[i] : i \in 1..Len(PathsOrDefault)}

\* C28: the additional behaviours are those of the server paths and of
\* '*.*'; every server path other than '*.*' has the API behaviour on the
\* HTTP origin, and '*.*' has the static-assets behaviour on the S3 origin,
\* also when '*.*' is listed among the server paths
C28_BehaviourMap ==
  Constructed =>
    \A d \in stack.client.distributions :
      /\ DOMAIN d.additionalBehaviors = PathSet \cup {"*.*"}
      /\ \A q \in PathSet \ {"*.*"} :
           /\ d.additionalBehaviors[q].origin = "http"
           /\ d.additionalBehaviors[q].viewerProtocolPolicy = "https-only"
           /\ "POST" \in d.additionalBehaviors[q].allowedMethods
      /\ d.additionalBehaviors["*.*"].origin = "s3"
      /\ "POST" \notin d.additionalBehaviors["*.*"].allowedMethods

C28_Witness ==
  /\ Constructed
  /\ PathsOrDefault = <<"/a/*", "*.*">>
  /\ \E d \in stack.client.distributions :
       /\ d.additionalBehaviors["*.*"].origin = "s3"
       /\ d.additionalBehaviors["/a/*"].origin = "http"

\* C29: an alias 'live' with provisionedConcurrentExecutions equal to
\* serverProps.provisionedConcurrency exists if and only if
\* provisionedConcurrency is defined, 0 included; there is at most one, and
\* it is of the one server function that the dockerFile choice selects
C29_ProvisionedAlias ==
  ServerBuilt =>
    IF props.serverProps.provisionedConcurrency # NotGiven
    THEN /\ Cardinality(stack.server.aliases) = 1
         /\ Cardinality(stack.server.functions) = 1
         /\ \A a \in stack.server.aliases :
              /\ a.aliasName = "live"
              /\ a.provisionedConcurrentExecutions
                   = props.serverProps.provisionedConcurrency[1]
              /\ \E f \in stack.server.functions :
                   /\ a.version = f.id
                   /\ f.kind = IF IsSet(props.serverProps.dockerFile)
                               THEN "image" ELSE "zip"
    ELSE stack.server.aliases = {}

C29_Witness ==
  /\ ServerBuilt
  /\ props.serverProps.provisionedConcurrency = <<0>>
  /\ IsSet(props.serverProps.dockerFile)
  /\ \E a \in stack.server.aliases :
       a.version = "ContainerFunction" /\ a.provisionedConcurrentExecutions = 0

\* ------------------------------ further claims about the deployed distribution
\* the behaviour runs the resolver on the origin's response
HasResolver(b) ==
  \E l \in b.edgeLambdas :
    l.eventType = "origin-response" /\ l.function = "FallbackEdgeFunction"

\* the URI matches a pattern of the server paths
OnServerPath(uri) == \E q \in PathSet : globMatch(PatternText(q), uri)

\* C27 as stated: the default behaviour and '*.*' have the resolver at
\* origin-response and no behaviour of a server path has it; the answer to
\* a request that matches a server path is the origin's response, and the
\* resolver has not run
C27_ServerPathsUntouched ==
  Answered =>
    /\ HasResolver(Cdn.defaultBehavior)
    /\ HasResolver(Cdn.additionalBehaviors["*.*"])
    /\ \A q \in PathSet : Cdn.additionalBehaviors[q].edgeLambdas = {}
    /\ OnServerPath(viewer.uri) =>
         ~viewer.ran /\ viewer.answer = viewer.originResponse

\* the first server path that matches the URI is not '*.*'
ServedByServerPath(uri) ==
  LET matching == {i \in 1..Len(PathsOrDefault) :
                     globMatch(PatternText(PathsOrDefault[i]), uri)}
  IN /\ matching # {}
     /\ \E i \in matching :
          /\ \A j \in matching : i <= j
          /\ PathsOrDefault[i] # "*.*"

\* C27 amended: the default behaviour and '*.*' have the resolver at
\* origin-response and no behaviour of a server path other than '*.*' has
\* it; the answer to a request whose first matching server path is not
\* '*.*' is the origin's response, and the resolver has not run
C27_ServerPathBehavioursUntouched ==
  Answered =>
    /\ HasResolver(Cdn.defaultBehavior)
    /\ HasResolver(Cdn.additionalBehaviors["*.*"])
    /\ \A q \in PathSet \ {"*.*"} : Cdn.additionalBehaviors[q].edgeLambdas = {}
    /\ ServedByServerPath(viewer.uri) =>
         ~viewer.ran /\ viewer.answer = viewer.originResponse

\* a request that '/api/*' and '*.*' both match got the server's 404 as it came
C27_Witness ==
  /\ Answered
  /\ viewer.uri = <<"/", "a", "p", "i", "/", "a", ".", "a">>
  /\ viewer.pattern = "/api/*"
  /\ viewer.originResponse[1].status = "404"
  /\ viewer.answer = viewer.originResponse
  /\ ~viewer.ran

====
